---- MODULE Spec2Model ----
(***************************************************************************)
(* Evaluation-run orchestrator of memory-evals: task creation, Pub/Sub     *)
(* delivery, the in-memory task queue, SimpleWorker.process_task with its  *)
(* dual executor (agent processes, judging threads), cancellation, status  *)
(* updates and the internal retry.  One task (Run) is modelled; the        *)
(* database rows are the shared state, everything else is worker-local.    *)
(***************************************************************************)
EXTENDS Integers, Sequences, FiniteSets, TLC

(* ---------------------------------------------------------------------- *)
(* Bounds                                                                  *)
(* ---------------------------------------------------------------------- *)
MaxAgents == 2          \* longest agents list of a request
MaxExtras == 1          \* environment events after the request, taken together:
                        \* duplicate Pub/Sub deliveries, internal retries and
                        \* status-update calls

(* ---------------------------------------------------------------------- *)
(* Program constants                                                       *)
(* ---------------------------------------------------------------------- *)
QueueMaxWorkers == 2    \* SimpleTaskQueue(max_workers=2)

AgentName == <<"iflow", "claude", "gemini">>

Workers == 1..QueueMaxWorkers

NoTask == [status |-> "absent", error_message |-> "", agents |-> <<>>]

(* TaskStatus / AgentRunStatus values as stored in the String(50) columns *)
QUEUED == "queued"
RUNNING == "running"
DONE == "done"
ERROR == "error"
EVALUATING == "evaluating"
MEMORY_ONLY == "memory_only"

(* ---------------------------------------------------------------------- *)
(* Requests: agents lists of CreateTaskRequest.  Agent kinds are           *)
(* interchangeable, so only lists whose kinds appear in AgentName order    *)
(* are enumerated; a list may name a kind twice.                           *)
(* ---------------------------------------------------------------------- *)
KindIndex(k) == CHOOSE n \in 1..Len(AgentName) : AgentName[n] = k

Canonical(s) ==
    \A n \in 1..Len(s) :
        LET seen == {KindIndex(s[m]) : m \in 1..(n - 1)}
        IN  KindIndex(s[n]) \in seen \/ KindIndex(s[n]) = Cardinality(seen) + 1

AgentLists ==
    {s \in UNION {[1..n -> {AgentName[k] : k \in 1..Len(AgentName)}] : n \in 1..MaxAgents} :
        Canonical(s)}

VARIABLES
    task,          \* the TaskDB row: status, error_message, agents
    agent_runs,    \* the AgentRunDB rows of the task, in creation order
    scores,        \* number of ScoreDB rows per agent-run row
    pubsub,        \* Pub/Sub deliveries waiting for process_message
    published,     \* TRUE once a message for the task was published
    extras,        \* duplicate deliveries, retries and status updates so far
    webhook,       \* Cloud Tasks webhooks waiting for process_task_internal
    task_queue,    \* entries of SimpleTaskQueue.task_queue
    pc,            \* per executor thread: position in process_task
    stage,         \* per thread and agent index: state of its futures
    session,       \* one agent session, followed through its phases
    verdict,       \* one judging of an AgentRun, up to its ScoreDB row
    detector,      \* a compression detector and the readings it was given
    job,           \* one process_task job of workers/tasks.py and its alarm
    delivery,      \* one Pub/Sub delivery, followed through process_message
    simple_worker, \* the SimpleWorker of _process_tasks and the tasks it runs
    iflow,         \* the iFlow servers and sessions of the tasks in progress
    deep_dive,     \* the token estimate of the backend iFlow session
    registry       \* the AgentRegistry: classes, cached instances, last get_agent

vars == <<task, agent_runs, scores, pubsub, published, extras,
          webhook, task_queue, pc, stage, session, verdict, detector, job,
          delivery,
          simple_worker,
          iflow,
          deep_dive,
          registry>>

db == <<task, agent_runs, scores>>
transport == <<pubsub, published, webhook, task_queue>>
local == <<pc, stage>>
units == <<session, verdict, detector, job, delivery, simple_worker, iflow, deep_dive, registry>>

(* no session is being followed *)
NoSession ==
    [impl |-> "none", worker |-> "none", max_turns |-> 0, phase |-> "idle",
     deep_dive_count |-> 0, near_limit |-> FALSE, compression_detected |-> FALSE,
     raised |-> FALSE, trail |-> <<>>,
     sent |-> <<>>, attempt |-> 0, timed_out |-> FALSE, error |-> "none"]

(* no judging is being followed *)
NoVerdict ==
    [phase |-> "idle", path |-> "none", rubric |-> {}, judge_type |-> "none",
     thresholds |-> <<>>, evidence |-> [kind |-> "none"],
     scores |-> <<>>, rationale |-> "", judge_type_used |-> "none",
     origin |-> "none", raised |-> FALSE, row |-> [kind |-> "none"]]

(* no detector has been constructed *)
NoDetector ==
    [constructed |-> FALSE, threshold_low |-> 0, jump_threshold |-> 0,
     readings |-> <<>>, fired_at |-> 0]

(* no job of workers/tasks.py is being followed *)
NoJob ==
    [phase |-> "idle", alarm |-> "unset", status |-> <<>>, next |-> 0,
     in_session |-> FALSE, started_after_alarm |-> {}, task_status |-> "none"]

(* no Pub/Sub delivery is being followed *)
NoDelivery ==
    [phase |-> "idle", message |-> "none", task_status |-> "none",
     acks |-> 0, nacks |-> 0, raised |-> "none", processing |-> "none",
     deliveries |-> 0]

(* the SimpleWorker instance before any task: task_logger is None
   (0); per task of the executor, the point process_task has reached
   and the loggers its events went through *)
NoSimpleWorker ==
    [task_logger |-> 0,
     at |-> [t \in Workers |-> "queued"],
     through |-> [t \in Workers |-> {}]]

(* IFlowAgent.__init__: iflow_process is None (0) and the port is 8090;
   no iFlow process exists, nothing listens on the port *)
IFlowPort == 8090

NoIFlowSession == [phase |-> "idle", port |-> IFlowPort, iflow_process |-> 0, url |-> 0]

NoIFlow ==
    [pids |-> 0, alive |-> {}, listening |-> 0,
     sess |-> [t \in Workers |-> NoIFlowSession]]

(* _run_async_session before the first prompt: total_tokens_estimate = 0,
   compression_detected = False; prev_tokens and detection_method get
   their first values before the deep-dive loop *)
NoDeepDive ==
    [phase |-> "idle", max_tokens |-> 0, max_turns |-> 0,
     total_tokens_estimate |-> 0, prev_tokens |-> 0, deep_dive_count |-> 0,
     compression_detected |-> FALSE, detection_method |-> "none"]

(* AgentRegistry.__init__: _agents and _instances are empty ("none": the
   name is not a key); returned: what the last get_agent call returned *)
RegistryNames == {"iflow", "claude"}
AgentClasses == {"AdapterA", "AdapterB"}

NoRegistry ==
    [_agents |-> [n \in RegistryNames |-> "none"],
     _instances |-> [n \in RegistryNames |-> "none"],
     returned |-> [name |-> "none", instance_of |-> "none"]]

(* agent indices: long enough for every agents list of the model *)
AgentIdx == 1..(IF MaxAgents > Len(AgentName) THEN MaxAgents ELSE Len(AgentName))

NoStages == [i \in AgentIdx |-> "none"]

Init ==
    /\ task = NoTask
    /\ agent_runs = <<>>
    /\ scores = [i \in AgentIdx |-> 0]
    /\ pubsub = 0
    /\ published = FALSE
    /\ extras = 0
    /\ webhook = 0
    /\ task_queue = 0
    /\ pc = [w \in Workers |-> "idle"]
    /\ stage = [w \in Workers |-> NoStages]
    /\ session = NoSession
    /\ verdict = NoVerdict
    /\ detector = NoDetector
    /\ job = NoJob
    /\ delivery = NoDelivery
    /\ simple_worker = NoSimpleWorker
    /\ iflow = NoIFlow
    /\ deep_dive = NoDeepDive
    /\ registry = NoRegistry

(* ---------------------------------------------------------------------- *)
(* DatabaseManager                                                         *)
(* ---------------------------------------------------------------------- *)

(* update_task: set the given fields of the row, whatever its state *)
update_task(t, status, msg) == [t EXCEPT !.status = status, !.error_message = msg]

update_task_status_only(t, status) == [t EXCEPT !.status = status]

(* next((r for r in agent_runs if r.agent == name), None): the first row of
   that kind, 0 for None *)
find_agent_run(runs, name) ==
    IF \E i \in 1..Len(runs) : runs[i].agent = name
    THEN CHOOSE i \in 1..Len(runs) :
            /\ runs[i].agent = name
            /\ \A j \in 1..(i - 1) : runs[j].agent # name
    ELSE 0

(* update_agent_run on row r (no row: nothing happens) *)
update_agent_run(runs, r, status, msg) ==
    IF r = 0 THEN runs
    ELSE [runs EXCEPT ![r] = [@ EXCEPT !.status = status, !.error_message = msg]]

update_agent_run_status(runs, r, status) ==
    IF r = 0 THEN runs ELSE [runs EXCEPT ![r] = [@ EXCEPT !.status = status]]

update_agent_run_done(runs, r, artifacts) ==
    IF r = 0 THEN runs
    ELSE [runs EXCEPT ![r] = [@ EXCEPT !.status = DONE, !.artifacts = artifacts]]

(* ---------------------------------------------------------------------- *)
(* routers/tasks.py create_task                                            *)
(* ---------------------------------------------------------------------- *)
create_task(agents, cloud_ok) ==
    /\ task = NoTask
    /\ agent_runs' = [i \in 1..Len(agents) |->
                        [agent |-> agents[i], status |-> QUEUED, error_message |-> "",
                         artifacts |-> {}, retry_count |-> 0]]
    /\ IF cloud_ok
       THEN /\ task' = [status |-> QUEUED, error_message |-> "", agents |-> agents]
            /\ webhook' = webhook + 1
            /\ UNCHANGED task_queue
       ELSE /\ task' = [status |-> RUNNING, error_message |-> "", agents |-> agents]
            /\ task_queue' = task_queue + 1
            /\ UNCHANGED webhook
    /\ UNCHANGED <<scores, pubsub, published, extras, local, units>>

(* routers/internal.py process_task_internal: the Cloud Tasks webhook *)
process_task_internal ==
    /\ webhook > 0
    /\ webhook' = webhook - 1
    /\ IF task.status # QUEUED
       THEN UNCHANGED <<pubsub, published>>
       ELSE /\ pubsub' = pubsub + 1
            /\ published' = TRUE
    /\ UNCHANGED <<db, extras, task_queue, local, units>>

(* Pub/Sub delivers at least once: a published message may arrive again *)
redeliver ==
    /\ published
    /\ extras < MaxExtras
    /\ extras' = extras + 1
    /\ pubsub' = pubsub + 1
    /\ UNCHANGED <<db, published, webhook, task_queue, local, units>>

(* cloud_worker.py process_message *)
accepts_message(status) == status \in {"queued", "running"}

process_message ==
    /\ pubsub > 0
    /\ pubsub' = pubsub - 1
    /\ IF accepts_message(task.status)
       THEN task_queue' = task_queue + 1
       ELSE UNCHANGED task_queue
    /\ UNCHANGED <<db, published, extras, webhook, local, units>>

(* ---------------------------------------------------------------------- *)
(* workers/simple_worker.py: SimpleTaskQueue and SimpleWorker.process_task *)
(* ---------------------------------------------------------------------- *)
Free(w) == pc[w] = "idle"

NAgents == Len(task.agents)

(* _process_tasks hands the entry to a free executor thread (threads are
   interchangeable: the lowest free one takes it); process_task reads the
   task and marks it RUNNING (lines 212-222) *)
process_task_begin(w) ==
    /\ task_queue > 0
    /\ Free(w)
    /\ \A v \in Workers : v < w => ~Free(v)
    /\ task_queue' = task_queue - 1
    /\ task' = update_task_status_only(task, RUNNING)
    /\ pc' = [pc EXCEPT ![w] = "pr"]
    /\ UNCHANGED <<agent_runs, scores, pubsub, published, extras, webhook, stage, units>>

(* Steps 1-2: pr_service.process_pr and the prompts.  A failing prompt
   generation falls back to _create_fallback_prompts; a failing process_pr
   reaches the except handler of process_task (lines 347-359) *)
process_task_pr(w, pr_ok) ==
    /\ pc[w] = "pr"
    /\ IF pr_ok
       THEN /\ pc' = [pc EXCEPT ![w] = "submit"]
            /\ UNCHANGED task
       ELSE /\ task' = update_task(task, ERROR, "exc:process_pr")
            /\ pc' = [pc EXCEPT ![w] = "idle"]
    /\ UNCHANGED <<agent_runs, scores, transport, extras, stage, units>>

(* _process_agents_simple, phase 1: one future per entry of task.agents; a
   submission that raises is only noted in agent_results (lines 412-436) *)
submit_agents(w, failing) ==
    /\ pc[w] = "submit"
    /\ failing \subseteq 1..NAgents
    /\ stage' = [stage EXCEPT ![w] =
                    [i \in AgentIdx |->
                        IF i > NAgents THEN "none"
                        ELSE IF i \in failing THEN "subfail" ELSE "pending"]]
    /\ pc' = [pc EXCEPT ![w] = "collect"]
    /\ UNCHANGED <<db, transport, extras, units>>

(* ProcessPoolExecutor(max_workers=len(task_db.agents)) and
   ThreadPoolExecutor(max_workers=len(task_db.agents)) *)
AgentPoolSize(n) == n
JudgePoolSize(n) == n

InAgentPool(w) == {i \in AgentIdx : stage[w][i] = "running"}
InJudgePool(w) == {i \in AgentIdx : stage[w][i] = "judging"}

(* run_agent_process up to the RUNNING update (lines 52-79); get_agent may
   raise AgentNotFoundError, which the except branch (127-138) records *)
agent_start(w, i, available) ==
    /\ stage[w][i] = "pending"
    /\ Cardinality(InAgentPool(w)) < AgentPoolSize(NAgents)
    /\ LET r == find_agent_run(agent_runs, task.agents[i])
       IN  IF available
           THEN /\ agent_runs' = update_agent_run_status(agent_runs, r, RUNNING)
                /\ stage' = [stage EXCEPT ![w][i] = "running"]
           ELSE /\ agent_runs' = update_agent_run(agent_runs, r, ERROR, "exc:registry")
                /\ stage' = [stage EXCEPT ![w][i] = "failed"]
    /\ UNCHANGED <<task, scores, transport, extras, pc, units>>

(* AgentAdapter.handle_error: the result it builds for a caught exception *)
handle_error(e) ==
    [raised |-> FALSE, artifacts |-> {"error"}, error |-> "", stats_error |-> e]

(* agent.run_session(session), by what the session did:
     "ok"      the protocol ran; the transcript is an artifact
     "raised"  the session raised; run_session catches and returns handle_error
     "empty"   the adapter returned a result without artifacts
     "escaped" an exception left run_session (setup_output_directory or
               handle_error itself failed) *)
SessionOutcomes == {"ok", "raised", "empty", "escaped"}

run_session(outcome) ==
    CASE outcome = "ok" ->
            [raised |-> FALSE, artifacts |-> {"transcript"}, error |-> "", stats_error |-> ""]
      [] outcome = "raised" -> handle_error("exc:session")
      [] outcome = "empty" ->
            [raised |-> FALSE, artifacts |-> {}, error |-> "", stats_error |-> ""]
      [] outcome = "escaped" ->
            [raised |-> TRUE, artifacts |-> {}, error |-> "exc:session", stats_error |-> ""]

(* result.get("error", "Agent execution failed") *)
result_error(result) == IF result.error = "" THEN "Agent execution failed" ELSE result.error

(* run_agent_process from run_session to its return (lines 95-138) *)
agent_finish(w, i, outcome) ==
    /\ stage[w][i] = "running"
    /\ LET result == run_session(outcome)
           r == find_agent_run(agent_runs, task.agents[i])
       IN  IF result.raised
           THEN /\ agent_runs' = update_agent_run(agent_runs, r, ERROR, result.error)
                /\ stage' = [stage EXCEPT ![w][i] = "failed"]
           ELSE IF result.artifacts # {}
           THEN /\ agent_runs' = update_agent_run_done(agent_runs, r, result.artifacts)
                /\ stage' = [stage EXCEPT ![w][i] = "success"]
           ELSE /\ agent_runs' = update_agent_run(agent_runs, r, ERROR, result_error(result))
                /\ stage' = [stage EXCEPT ![w][i] = "failed"]
    /\ UNCHANGED <<task, scores, transport, extras, pc, units>>

(* _process_agents_simple, phase 2 (lines 442-478): the coordinator takes a
   completed agent future; a success is handed to the judging pool at once.
   If the bookkeeping raises before the submit, the except branch only notes
   the failure *)
collect_agent(w, i, raises) ==
    /\ pc[w] = "collect"
    /\ stage[w][i] \in {"success", "failed"}
    /\ raises => stage[w][i] = "success"
    /\ stage' = [stage EXCEPT ![w][i] =
                    IF stage[w][i] = "success" /\ ~raises THEN "jpending" ELSE "collected"]
    /\ UNCHANGED <<db, transport, extras, pc, units>>

(* _judge_single_agent_wrapper starts on a thread of the judging pool *)
judge_start(w, i) ==
    /\ stage[w][i] = "jpending"
    /\ Cardinality(InJudgePool(w)) < JudgePoolSize(NAgents)
    /\ stage' = [stage EXCEPT ![w][i] = "judging"]
    /\ UNCHANGED <<db, transport, extras, pc, units>>

(* a judging that would fail its AgentRun when it raises *)
judge_finish_failing(w, i, scored) ==
    /\ stage[w][i] = "judging"
    /\ LET r == find_agent_run(agent_runs, task.agents[i])
       IN  /\ scores' = IF scored /\ r # 0 THEN [scores EXCEPT ![r] = @ + 1] ELSE scores
           /\ agent_runs' = IF scored THEN agent_runs
                            ELSE update_agent_run(agent_runs, r, ERROR, "judging failed")
    /\ stage' = [stage EXCEPT ![w][i] = "judged"]
    /\ UNCHANGED <<task, transport, extras, pc, units>>

(* _judge_single_agent (lines 661-864): one create_score for the agent's
   row, or nothing when the judging raised (the outer except only logs) *)
judge_finish(w, i, scored) ==
    /\ stage[w][i] = "judging"
    /\ LET r == find_agent_run(agent_runs, task.agents[i])
       IN  scores' = IF scored /\ r # 0 THEN [scores EXCEPT ![r] = @ + 1] ELSE scores
    /\ stage' = [stage EXCEPT ![w][i] = "judged"]
    /\ UNCHANGED <<task, agent_runs, transport, extras, pc, units>>

Resolved(w) ==
    \A i \in 1..NAgents : stage[w][i] \in {"subfail", "collected", "judged"}

successful_agents(w) ==
    {i \in 1..NAgents : stage[w][i] = "judged"}

(* the status process_task writes in step 5 (line 319) *)
final_status(successful) == DONE

(* process_task steps 4-5 (lines 298-345), after both executors have shut
   down *)
process_task_complete(w) ==
    /\ pc[w] = "collect"
    /\ Resolved(w)
    /\ task' = update_task_status_only(task, final_status(successful_agents(w)))
    /\ pc' = [pc EXCEPT ![w] = "idle"]
    /\ stage' = [stage EXCEPT ![w] = NoStages]
    /\ UNCHANGED <<agent_runs, scores, transport, extras, units>>

(* ---------------------------------------------------------------------- *)
(* routers/tasks.py: cancel_task, update_task_status;                      *)
(* routers/internal.py: retry_task_internal                                *)
(* ---------------------------------------------------------------------- *)
cancel_task ==
    /\ task # NoTask
    /\ task.status \notin {DONE, ERROR}
    /\ task' = update_task(task, ERROR, "Task cancelled by user")
    /\ agent_runs' = [i \in 1..Len(agent_runs) |->
                        IF agent_runs[i].status \in {QUEUED, RUNNING}
                        THEN [agent_runs[i] EXCEPT !.status = ERROR,
                                                   !.error_message = "Task cancelled"]
                        ELSE agent_runs[i]]
    /\ UNCHANGED <<scores, transport, extras, local, units>>

StatusUpdates == {"RUNNING", "DONE", "ERROR"}

update_task_status(status) ==
    /\ task # NoTask
    /\ extras < MaxExtras
    /\ extras' = extras + 1
    /\ task' = IF status \in StatusUpdates
               THEN update_task_status_only(task, status) ELSE task
    /\ UNCHANGED <<agent_runs, scores, transport, local, units>>

(* the task is reset to QUEUED inside the database session, then
   publish_task is called.  message_id: publish_task returned a message id;
   FALSE: it returned None (no publisher, or publishing raised and was
   logged) or get_pubsub_manager raised, and the request is answered with
   status 500 *)
retry_task_internal(message_id) ==
    /\ task # NoTask
    /\ task.status \in {ERROR, DONE}
    /\ extras < MaxExtras
    /\ extras' = extras + 1
    /\ task' = update_task(task, QUEUED, "")
    /\ IF message_id
       THEN /\ pubsub' = pubsub + 1
            /\ published' = TRUE
       ELSE UNCHANGED <<pubsub, published>>
    /\ UNCHANGED <<agent_runs, scores, webhook, task_queue, local, units>>

(* routers/tasks.py retry_task: POST /{task_id}/retry.  agents is the
   optional list of agent names of the request (given = FALSE: None) *)
RetryRequests ==
    {[given |-> FALSE, names |-> {}]}
        \cup {[given |-> TRUE, names |-> n] :
                n \in {{AgentName[1]}, {AgentName[2]}, {AgentName[1], AgentName[2]}}}

(* the rows the loop of retry_task resets (lines 773-792) *)
retried(run, agents) ==
    IF ~agents.given THEN run.status = ERROR ELSE run.agent \in agents.names

(* get_cloud_tasks_manager() returns the CloudTasksManager, which has
   enqueue_task and no publish_task: hasattr(...) is False and nothing is
   published (lines 797-804) *)
CloudTasksManager_has_publish_task == FALSE

retry_task(agents) ==
    /\ task # NoTask
    /\ agent_runs # <<>>
    /\ extras < MaxExtras
    /\ extras' = extras + 1
    /\ agent_runs' = [i \in 1..Len(agent_runs) |->
                        IF retried(agent_runs[i], agents)
                        THEN [agent_runs[i] EXCEPT !.status = QUEUED,
                                                   !.error_message = ""]
                        ELSE agent_runs[i]]
    /\ IF CloudTasksManager_has_publish_task
          /\ \E i \in 1..Len(agent_runs) : retried(agent_runs[i], agents)
       THEN /\ pubsub' = pubsub + 1
            /\ published' = TRUE
       ELSE UNCHANGED <<pubsub, published>>
    /\ UNCHANGED <<task, scores, webhook, task_queue, local, units>>

Next ==
    \/ \E agents \in AgentLists, cloud_ok \in BOOLEAN : create_task(agents, cloud_ok)
    \/ process_task_internal
    \/ redeliver
    \/ process_message
    \/ \E w \in Workers : process_task_begin(w)
    \/ \E w \in Workers, pr_ok \in BOOLEAN : process_task_pr(w, pr_ok)
    \/ \E w \in Workers, failing \in SUBSET AgentIdx : submit_agents(w, failing)
    \/ \E w \in Workers, i \in AgentIdx, available \in BOOLEAN : agent_start(w, i, available)
    \/ \E w \in Workers, i \in AgentIdx, outcome \in SessionOutcomes : agent_finish(w, i, outcome)
    \/ \E w \in Workers, i \in AgentIdx, raises \in BOOLEAN : collect_agent(w, i, raises)
    \/ \E w \in Workers, i \in AgentIdx : judge_start(w, i)
    \/ \E w \in Workers, i \in AgentIdx, scored \in BOOLEAN : judge_finish(w, i, scored)
    \/ \E w \in Workers : process_task_complete(w)
    \/ cancel_task
    \/ \E status \in StatusUpdates \cup {"PROGRESS"} : update_task_status(status)
    \/ \E message_id \in BOOLEAN : retry_task_internal(message_id)
    \/ \E agents \in RetryRequests : retry_task(agents)

Spec == Init /\ [][Next]_vars

(* ---------------------------------------------------------------------- *)
(* src/workers/simple_worker.py with src/app/presentation/routers/tasks.py *)
(* (the deployment without Cloud Tasks): create_task sets RUNNING and      *)
(* calls process_task_simple; process_task and the agent futures are as    *)
(* above, but the coordinator judges inside its as_completed loop.         *)
(* ---------------------------------------------------------------------- *)
create_task_direct(agents) == create_task(agents, FALSE)

(* _process_agents_simple (lines 391-441): the coordinator takes a completed
   agent future and, for a success, calls _judge_single_agent itself *)
collect_agent_inline(w, i, raises) ==
    /\ pc[w] = "collect"
    /\ stage[w][i] \in {"success", "failed"}
    /\ raises => stage[w][i] = "success"
    /\ IF stage[w][i] = "success" /\ ~raises
       THEN /\ stage' = [stage EXCEPT ![w][i] = "judging"]
            /\ pc' = [pc EXCEPT ![w] = "judge_inline"]
       ELSE /\ stage' = [stage EXCEPT ![w][i] = "collected"]
            /\ pc' = pc
    /\ UNCHANGED <<db, transport, extras, units>>

(* the inline _judge_single_agent call returns (or raises into the except
   of lines 424-428) and the loop goes on *)
judge_inline_finish(w, i, scored) ==
    /\ pc[w] = "judge_inline"
    /\ stage[w][i] = "judging"
    /\ LET r == find_agent_run(agent_runs, task.agents[i])
       IN  scores' = IF scored /\ r # 0 THEN [scores EXCEPT ![r] = @ + 1] ELSE scores
    /\ stage' = [stage EXCEPT ![w][i] = "judged"]
    /\ pc' = [pc EXCEPT ![w] = "collect"]
    /\ UNCHANGED <<task, agent_runs, transport, extras, units>>

NextInline ==
    \/ \E agents \in AgentLists : create_task_direct(agents)
    \/ \E w \in Workers : process_task_begin(w)
    \/ \E w \in Workers, pr_ok \in BOOLEAN : process_task_pr(w, pr_ok)
    \/ \E w \in Workers, failing \in SUBSET AgentIdx : submit_agents(w, failing)
    \/ \E w \in Workers, i \in AgentIdx, available \in BOOLEAN : agent_start(w, i, available)
    \/ \E w \in Workers, i \in AgentIdx, outcome \in SessionOutcomes : agent_finish(w, i, outcome)
    \/ \E w \in Workers, i \in AgentIdx, raises \in BOOLEAN : collect_agent_inline(w, i, raises)
    \/ \E w \in Workers, i \in AgentIdx, scored \in BOOLEAN : judge_inline_finish(w, i, scored)
    \/ \E w \in Workers : process_task_complete(w)

SpecInline == Init /\ [][NextInline]_vars

(* ---------------------------------------------------------------------- *)
(* Vocabulary of the properties                                            *)
(* ---------------------------------------------------------------------- *)
Terminal == {DONE, ERROR}

Rows == 1..Len(agent_runs)

(* nothing is in flight and every executor thread is free *)
Quiescent ==
    /\ webhook = 0
    /\ pubsub = 0
    /\ task_queue = 0
    /\ \A w \in Workers : pc[w] = "idle"

(* the step with which the thread w ends a process_task call *)
process_task_ends(w) == process_task_complete(w) \/ process_task_pr(w, FALSE)

(* an agent or judging future that has not resolved yet *)
Unresolved == {"pending", "running", "jpending", "judging"}

(* ---------------------------------------------------------------------- *)
(* C1: a run requested with K agents has exactly K AgentRuns, and once     *)
(* the processing of the run has come to rest every one of them is Done    *)
(* or Error (each AgentRun reaches a terminal state, whatever the others   *)
(* did).                                                                   *)
(* ---------------------------------------------------------------------- *)
C1_EveryAgentRunTerminates ==
    (task # NoTask /\ Quiescent) =>
        /\ Len(agent_runs) = Len(task.agents)
        /\ \A i \in Rows : agent_runs[i].status \in Terminal

(* ---------------------------------------------------------------------- *)
(* C2: when a coordinator finishes processing a run after collecting       *)
(* every agent future, all AgentRuns having ended, the Run is left Done if *)
(* some AgentRun is Done and Error if none is.                             *)
(* ---------------------------------------------------------------------- *)
C2_RunDoneIffSomeAgentDone ==
    [][\A w \in Workers :
        (/\ process_task_ends(w)
         /\ \A i \in 1..NAgents : stage[w][i] \in {"collected", "judged"}
         /\ \A i \in Rows : agent_runs[i].status \in Terminal) =>
            task'.status = IF \E i \in Rows : agent_runs'[i].status = DONE
                           THEN DONE ELSE ERROR]_vars

(* ---------------------------------------------------------------------- *)
(* C3: no step of a coordinator moves the Run to Done or Error while an    *)
(* agent future or a judging future of the run is unresolved.              *)
(* ---------------------------------------------------------------------- *)
C3_NoTerminalRunWhileFuturesOpen ==
    [][\A w \in Workers :
        (process_task_ends(w) /\ task'.status \in Terminal) =>
            \A v \in Workers, i \in AgentIdx : stage[v][i] \notin Unresolved]_vars

(* ---------------------------------------------------------------------- *)
(* C4: an agent whose session has completed can be handed to judging at    *)
(* once, a judging task that was handed over can start at once (it waits   *)
(* for no sibling agent and for no other judging), and a submitted agent   *)
(* can start at once (it waits for no judging task).                       *)
(* ---------------------------------------------------------------------- *)
C4_JudgingSubmittedAtOnce ==
    \A w \in Workers, i \in AgentIdx :
        /\ stage[w][i] = "success" =>
                \/ ENABLED collect_agent(w, i, FALSE)
                \/ ENABLED collect_agent_inline(w, i, FALSE)
        /\ stage[w][i] = "jpending" => ENABLED judge_start(w, i)
        /\ stage[w][i] = "pending" => ENABLED agent_start(w, i, TRUE)

(* ---------------------------------------------------------------------- *)
(* C5: when an agent session raises, its AgentRun is written Error with    *)
(* the exception message and its future fails, so that no judging task is  *)
(* dispatched for it.                                                      *)
(* ---------------------------------------------------------------------- *)
C5_SessionExceptionEndsInError ==
    [][\A w \in Workers, i \in AgentIdx :
        (agent_finish(w, i, "raised") \/ agent_finish(w, i, "escaped")) =>
            LET r == find_agent_run(agent_runs, task.agents[i])
            IN  /\ r # 0 => /\ agent_runs'[r].status = ERROR
                            /\ agent_runs'[r].error_message = "exc:session"
                /\ stage'[w][i] = "failed"]_vars

(* ---------------------------------------------------------------------- *)
(* C6: whenever a coordinator step puts the Run in Done or Error, every    *)
(* AgentRun of the run is Done or Error.                                   *)
(* ---------------------------------------------------------------------- *)
C6_TerminalRunHasTerminalAgentRuns ==
    [][\A w \in Workers :
        (process_task_ends(w) /\ task'.status \in Terminal) =>
            \A i \in Rows : agent_runs'[i].status \in Terminal]_vars

(* ---------------------------------------------------------------------- *)
(* C7: a trigger delivered for a Run that is not Queued changes no Run or  *)
(* AgentRun row and queues no processing, and no process_task call begins  *)
(* on a run that another thread is processing.                             *)
(* ---------------------------------------------------------------------- *)
C7_StartOnNonQueuedIsNoOp ==
    [][/\ (process_message /\ task.status # QUEUED) =>
            UNCHANGED <<task, agent_runs, scores, task_queue, pc, stage>>
       /\ \A w \in Workers :
            process_task_begin(w) => \A v \in Workers : v # w => pc[v] = "idle"]_vars

(* ---------------------------------------------------------------------- *)
(* C9: the Run's status only moves forward along Queued, Running, then     *)
(* Done or Error, and never leaves Done or Error, except by the retry,     *)
(* which resets it to Queued.                                              *)
(* ---------------------------------------------------------------------- *)
Canon(status) ==
    CASE status \in {"queued"} -> QUEUED
      [] status \in {"running", "RUNNING"} -> RUNNING
      [] status \in {"done", "DONE"} -> DONE
      [] status \in {"error", "ERROR"} -> ERROR

Rank(status) ==
    CASE Canon(status) = QUEUED -> 0
      [] Canon(status) = RUNNING -> 1
      [] Canon(status) \in Terminal -> 2

C9_RunStatusOnlyMovesForward ==
    [][(task # NoTask /\ Canon(task'.status) # Canon(task.status)) =>
            \/ Rank(task.status) < Rank(task'.status)
            \/ \E message_id \in BOOLEAN : retry_task_internal(message_id)]_vars

(* ---------------------------------------------------------------------- *)
(* C10: an AgentRun becomes Done only from Evaluating, and only once a     *)
(* Score of its judging exists.                                            *)
(* ---------------------------------------------------------------------- *)
C10_DoneOnlyAfterEvaluating ==
    [][\A i \in Rows :
        (agent_runs'[i].status = DONE /\ agent_runs[i].status # DONE) =>
            /\ agent_runs[i].status = EVALUATING
            /\ scores[i] > 0]_vars

(* ---------------------------------------------------------------------- *)
(* The cancellation scenario: one request naming the three agent kinds,    *)
(* delivered once, and a user who cancels exactly when the first AgentRun  *)
(* is Done and judged and the other two are Running.                       *)
(* ---------------------------------------------------------------------- *)
create_scenario_task == \E cloud_ok \in BOOLEAN : create_task(AgentName, cloud_ok)

CancelScenario ==
    /\ Len(agent_runs) = 3
    /\ agent_runs[1].status = DONE
    /\ agent_runs[1].artifacts = {"transcript"}
    /\ scores[1] = 1
    /\ agent_runs[2].status = RUNNING
    /\ agent_runs[3].status = RUNNING

cancel_in_scenario == CancelScenario /\ cancel_task

NextCancel ==
    \/ create_scenario_task
    \/ process_task_internal
    \/ process_message
    \/ \E w \in Workers : process_task_begin(w)
    \/ \E w \in Workers, pr_ok \in BOOLEAN : process_task_pr(w, pr_ok)
    \/ \E w \in Workers, failing \in SUBSET AgentIdx : submit_agents(w, failing)
    \/ \E w \in Workers, i \in AgentIdx, available \in BOOLEAN : agent_start(w, i, available)
    \/ \E w \in Workers, i \in AgentIdx, outcome \in SessionOutcomes : agent_finish(w, i, outcome)
    \/ \E w \in Workers, i \in AgentIdx, raises \in BOOLEAN : collect_agent(w, i, raises)
    \/ \E w \in Workers, i \in AgentIdx : judge_start(w, i)
    \/ \E w \in Workers, i \in AgentIdx, scored \in BOOLEAN : judge_finish(w, i, scored)
    \/ \E w \in Workers : process_task_complete(w)
    \/ cancel_in_scenario

SpecCancel == Init /\ [][NextCancel]_vars

(* ---------------------------------------------------------------------- *)
(* C8: after the cancellation of the scenario, once every worker of the    *)
(* run has stopped, the first AgentRun is Done with its one Score, the     *)
(* other two are Error with the reason "Task cancelled", and the Run is    *)
(* Error.                                                                  *)
(* ---------------------------------------------------------------------- *)
C8_CancelledRunFinalState ==
    (task.error_message = "Task cancelled by user" /\ Quiescent) =>
        /\ agent_runs[1].status = DONE
        /\ scores[1] = 1
        /\ \A i \in {2, 3} : /\ agent_runs[i].status = ERROR
                             /\ agent_runs[i].error_message = "Task cancelled"
        /\ task.status = ERROR

(* ---------------------------------------------------------------------- *)
(* One agent session: the adapters' deep-dive loop, memory-only and recall *)
(* phases, and the status writes of the worker function that wraps it.     *)
(*   "backend.IFlowAgent"   backend/app/agents/iflow_agent.py              *)
(*   "backend.ClaudeAgent"  backend/app/agents/claude_agent.py             *)
(*   "app.GeminiAgent"      app/agents/gemini_agent.py (the same loop)     *)
(*   "app.ClaudeAgent"      app/agents/claude_agent.py (step-based)        *)
(* ---------------------------------------------------------------------- *)
MaxTurns == 3            \* largest settings.max_turns considered (default 100)
ClaudeDeepDiveSteps == 3 \* max_deep_dive_steps = 3
MaxConnectionAttempts == 2  \* connection attempts considered (the code makes 5)

TokenTracking == {"backend.ClaudeAgent", "app.GeminiAgent"}
IFlowImpls == {"backend.IFlowAgent", "app.IFlowAgent"}
SessionImpls == IFlowImpls \cup {"app.ClaudeAgent"} \cup TokenTracking

(* a prompt sent to the agent; fired: what the adapter concluded from the
   answer ("detector": a detection method fired, "approaching": the token
   count passed 90% of the maximum) *)
Prompt(name, fired) == [prompt |-> name, fired |-> fired]
ContextLoad == <<Prompt("init", "none"), Prompt("pre", "none")>>

(* the worker function that runs an adapter of each tree *)
SessionWorkers(impl) ==
    IF impl \in {"backend.IFlowAgent", "backend.ClaudeAgent"}
    THEN {"run_agent_process"}
    ELSE {"run_agent_session", "_run_agent_container"}

(* the worker writes RUNNING and calls run_session; the initial and the
   pre-compression prompts are answered.  near: the tokens used so far are
   already at 90% of max_context_tokens *)
session_begin(impl, worker, max_turns, near) ==
    /\ session = NoSession
    /\ worker \in SessionWorkers(impl)
    /\ near => impl \in TokenTracking
    /\ session' = [NoSession EXCEPT !.impl = impl, !.worker = worker,
                                    !.max_turns = max_turns, !.phase = "deep",
                                    !.near_limit = near, !.trail = <<QUEUED, RUNNING>>,
                                    !.sent = ContextLoad, !.attempt = 1]
    /\ UNCHANGED <<db, transport, extras, local, verdict, detector, job, delivery, simple_worker, iflow, deep_dive, registry>>

(* the condition of the deep-dive loop *)
deep_dive_continues(s) ==
    CASE s.impl \in IFlowImpls -> s.deep_dive_count < s.max_turns
      [] s.impl \in TokenTracking -> s.deep_dive_count < s.max_turns /\ ~s.near_limit
      [] s.impl = "app.ClaudeAgent" -> s.deep_dive_count < ClaudeDeepDiveSteps

DeepDiveOutcomes == {"continue", "tokens", "detect", "raise"}

(* an exception inside a phase.  app/agents/iflow_agent.py runs the phases
   inside its connection loop: while attempts are left the except branch
   sleeps and the next attempt connects and starts again at phase 1, with
   the token estimate and compression_detected of the failed attempt.
   Everywhere else the exception ends the session *)
phase_raises(s) ==
    IF s.impl = "app.IFlowAgent" /\ s.attempt < MaxConnectionAttempts
    THEN [s EXCEPT !.attempt = @ + 1, !.phase = "deep", !.deep_dive_count = 0,
                   !.sent = @ \o ContextLoad]
    ELSE [s EXCEPT !.phase = "raised", !.raised = TRUE,
                   !.error = "AgentExecutionError"]

(* one iteration of the deep-dive loop:
     "continue"  the answer arrives, no detector fires
     "tokens"    the answer takes the token count past 90% of the maximum
                 (the iflow adapters log a warning)
     "detect"    a detector fires (iflow: token jump, keyword, limit flag or
                 estimate; token tracking: the provider reports the context
                 limit) and the loop is left by break
     "raise"     any other exception *)
deep_dive_iteration(outcome) ==
    /\ session.phase = "deep"
    /\ deep_dive_continues(session)
    /\ outcome = "tokens" => session.impl \in TokenTracking \cup IFlowImpls
    /\ outcome = "detect" => session.impl # "app.ClaudeAgent"
    /\ LET n == session.deep_dive_count + 1
           steps == session.impl = "app.ClaudeAgent" /\ n >= ClaudeDeepDiveSteps
           fired == CASE outcome = "detect" -> "detector"
                      [] outcome = "tokens" -> "approaching"
                      [] outcome = "continue" /\ steps -> "detector"
                      [] OTHER -> "none"
           s == [session EXCEPT !.deep_dive_count = n,
                                !.sent = Append(@, Prompt("deep", fired))]
       IN  session' =
             CASE outcome = "raise" -> phase_raises(s)
               [] outcome = "detect" ->
                    [s EXCEPT !.compression_detected = TRUE, !.phase = "memory_only"]
               [] outcome = "tokens" -> [s EXCEPT !.near_limit = TRUE]
               [] outcome = "continue" ->
                    IF steps
                    THEN [s EXCEPT !.compression_detected = TRUE, !.phase = "memory_only"]
                    ELSE s
    /\ UNCHANGED <<db, transport, extras, local, verdict, detector, job, delivery, simple_worker, iflow, deep_dive, registry>>

(* the loop condition fails; the token-tracking adapters then set hit_limit
   when the count is at 90% of the maximum *)
deep_dive_exit ==
    /\ session.phase = "deep"
    /\ ~deep_dive_continues(session)
    /\ session' = [session EXCEPT
                      !.phase = "memory_only",
                      !.compression_detected =
                          IF session.impl \in TokenTracking THEN session.near_limit ELSE @]
    /\ UNCHANGED <<db, transport, extras, local, verdict, detector, job, delivery, simple_worker, iflow, deep_dive, registry>>

(* phase 4; the token-tracking adapters swallow a context-limit error *)
memory_only_phase(ok) ==
    /\ session.phase = "memory_only"
    /\ LET s == [session EXCEPT !.sent = Append(@, Prompt("memory_only", "none"))]
       IN  session' = IF ok THEN [s EXCEPT !.phase = "recall"] ELSE phase_raises(s)
    /\ UNCHANGED <<db, transport, extras, local, verdict, detector, job, delivery, simple_worker, iflow, deep_dive, registry>>

(* phase 5, the evaluator questions; the session returns its result *)
recall_phase(ok) ==
    /\ session.phase = "recall"
    /\ LET s == [session EXCEPT !.sent = Append(@, Prompt("eval", "none"))]
       IN  session' = IF ok THEN [s EXCEPT !.phase = "returned"] ELSE phase_raises(s)
    /\ UNCHANGED <<db, transport, extras, local, verdict, detector, job, delivery, simple_worker, iflow, deep_dive, registry>>

(* result["compression_detected"] as the worker sees it: run_session returns
   handle_error's result (compression_detected False) when the session raised *)
result_compression_detected(s) == IF s.raised THEN FALSE ELSE s.compression_detected

(* the status writes after run_session has returned: run_agent_session
   writes MEMORY_ONLY when the result says so and then DONE; run_agent_process
   and _run_agent_container write DONE (artifacts are never empty here) *)
session_finish ==
    /\ session.phase \in {"returned", "raised"}
    /\ session' = [session EXCEPT
                      !.phase = "finished",
                      !.trail = @ \o (IF session.worker = "run_agent_session"
                                         /\ result_compression_detected(session)
                                      THEN <<MEMORY_ONLY, DONE>> ELSE <<DONE>>)]
    /\ UNCHANGED <<db, transport, extras, local, verdict, detector, job, delivery, simple_worker, iflow, deep_dive, registry>>

(* the session has run for settings.agent_session_timeout seconds.  The
   value is handed to the session (and to the iflow client and to
   pexpect.spawn as the default timeout of one request), but no adapter and
   no worker measures the session against it: the phases go on as before.
   raises: the CLI Claude adapter's 'except pexpect.TIMEOUT' branch is taken
   and raises AgentTimeoutError, which run_session hands to handle_error as
   it does any other exception *)
session_timeout_passes(raises) ==
    /\ session.phase \in {"deep", "memory_only", "recall"}
    /\ ~session.timed_out
    /\ raises => session.impl = "app.ClaudeAgent"
    /\ session' = IF raises
                  THEN [session EXCEPT !.timed_out = TRUE, !.phase = "raised",
                                       !.raised = TRUE, !.error = "AgentTimeoutError"]
                  ELSE [session EXCEPT !.timed_out = TRUE]
    /\ UNCHANGED <<db, transport, extras, local, verdict, detector, job, delivery, simple_worker, iflow, deep_dive, registry>>

NextSession ==
    \/ \E impl \in SessionImpls, max_turns \in 1..MaxTurns, near \in BOOLEAN :
          \E worker \in SessionWorkers(impl) :
            session_begin(impl, worker, max_turns, near)
    \/ \E outcome \in DeepDiveOutcomes : deep_dive_iteration(outcome)
    \/ deep_dive_exit
    \/ \E ok \in BOOLEAN : memory_only_phase(ok)
    \/ \E ok \in BOOLEAN : recall_phase(ok)
    \/ session_finish
    \/ \E raises \in BOOLEAN : session_timeout_passes(raises)

SpecSession == Init /\ [][NextSession]_vars

(* ---------------------------------------------------------------------- *)
(* C11: an AgentRun that enters MemoryOnly does so from Running, after at  *)
(* least one deep-dive iteration of its session, and not after Evaluating. *)
(* ---------------------------------------------------------------------- *)
C11_MemoryOnlyAfterDeepDive ==
    \A k \in 1..Len(session.trail) :
        session.trail[k] = MEMORY_ONLY =>
            /\ k > 1 /\ session.trail[k - 1] = RUNNING
            /\ session.deep_dive_count >= 1
            /\ \A j \in 1..(k - 1) : session.trail[j] # EVALUATING

(* ---------------------------------------------------------------------- *)
(* C12: once the worker has recorded the end of a session that did not     *)
(* raise, the AgentRun has passed through MemoryOnly if and only if        *)
(* compression detection fired in the session.                             *)
(* ---------------------------------------------------------------------- *)
C12_MemoryOnlyIffDetectionFired ==
    (session.phase = "finished" /\ ~session.raised) =>
        ((\E k \in 1..Len(session.trail) : session.trail[k] = MEMORY_ONLY)
            <=> session.compression_detected)

(* ---------------------------------------------------------------------- *)
(* Judging one AgentRun: the judges of app/services/judge_service.py, the  *)
(* threshold check of Score.calculate_overall_score and the ScoreDB row    *)
(* each worker path persists.  Scores are in hundredths (0.7 is 70).       *)
(* ---------------------------------------------------------------------- *)
RubricDimension == {"AR", "TTL", "LRU", "SF"}
Rubrics == {{"AR", "TTL"}, RubricDimension}

DefaultThreshold == 70   \* thresholds.get(dimension, 0.7)
DefaultScore == 50       \* scores[dim] = 0.5  # Default score
Absent == 0 - 1          \* a dimension the model's "scores" object lacks
ModelScores == {50, 70, 90, 120}

Min(a, b) == IF a < b THEN a ELSE b
Max(a, b) == IF a > b THEN a ELSE b

RECURSIVE SumOver(_, _)
SumOver(f, S) ==
    IF S = {} THEN 0
    ELSE LET d == CHOOSE x \in S : TRUE IN f[d] + SumOver(f, S \ {d})

(* what the heuristic judge counts in the answers *)
Answers ==
    [pre_details : {0, 4}, post_details : {2, 4}, learning : {1}, words : {20},
     connections : {8}, changes : {0, 6}]

(* HeuristicJudge._evaluate_dimension *)
_evaluate_dimension(dim, a) ==
    CASE dim = "AR" ->
           IF a.pre_details = 0 THEN 50
           ELSE 30 + (70 * Min(a.post_details, a.pre_details)) \div a.pre_details
      [] dim = "TTL" ->
           IF a.words = 0 THEN 0 ELSE Min((a.learning * 5000) \div a.words, 100)
      [] dim = "LRU" -> Min(a.connections * 10, 100)
      [] dim = "SF" -> Min((a.changes * 100) \div 8, 100)

(* HeuristicJudge.evaluate *)
HeuristicJudge_evaluate(a, rubric) ==
    [scores |-> [d \in rubric |-> _evaluate_dimension(d, a)],
     rationale |-> "heuristic"]

(* what _query_llm gives:
     "transport"  it raises (API error, no configured client)
     "none"       the message has no content
     "no_json"    text without a JSON object
     "bare_json"  a JSON object outside a ```json fence
     "bad_json"   a fenced object json.loads rejects
     "fenced"     a fenced object; scores_data is its "scores" member *)
MalformedKinds == {"none", "no_json", "bare_json", "bad_json"}
Unparsed(rubric) ==
    [kind : {"transport"} \cup MalformedKinds, scores_data : {[d \in rubric |-> Absent]}]
Fenced(rubric) ==
    [kind : {"fenced"}, scores_data : [rubric -> ModelScores \cup {Absent}]]

(* LLMJudge._parse_llm_response: every failure inside it is caught there *)
_parse_llm_response(response, rubric) ==
    IF response.kind = "fenced"
    THEN [scores |-> [d \in rubric |->
                        IF response.scores_data[d] # Absent
                        THEN Max(0, Min(100, response.scores_data[d]))
                        ELSE DefaultScore],
          rationale |-> "model"]
    ELSE [scores |-> [d \in rubric |-> DefaultScore],
          rationale |-> "Failed to parse LLM response"]

(* LLMJudge.evaluate *)
LLMJudge_evaluate(response, a, rubric) ==
    IF response.kind = "transport"
    THEN [HeuristicJudge_evaluate(a, rubric) EXCEPT
            !.rationale = "LLM evaluation failed, used heuristic fallback"]
    ELSE _parse_llm_response(response, rubric)

(* settings.default_judge; "gpt" stands for a value that names no judge *)
JudgeTypes == {"llm", "heuristic", "gpt"}
judge_model == "gpt-4o"

(* JudgeService.get_judge *)
get_judge(judge_type) ==
    IF judge_type \in {"heuristic", "llm"} THEN judge_type ELSE "heuristic"

(* JudgeService.evaluate_agent_performance *)
evaluate_agent_performance(response, a, rubric, judge_type) ==
    LET judge == get_judge(judge_type)
        r == IF judge = "llm" THEN LLMJudge_evaluate(response, a, rubric)
             ELSE HeuristicJudge_evaluate(a, rubric)
    IN  [scores |-> r.scores, rationale |-> r.rationale, judge_type_used |-> judge_type]

(* the judge whose computation the scores of evaluate_agent_performance are *)
ScoresOrigin(response, judge_type) ==
    CASE get_judge(judge_type) = "heuristic" -> "heuristic"
      [] response.kind = "transport" -> "heuristic"
      [] response.kind = "fenced" -> "model"
      [] OTHER -> "default"

(* what the worker's own heuristic reads from the AgentRun:
   stats["compression_detected"] is absent or the text of a boolean *)
RunStats ==
    [compression_detected : {"absent", "False", "True"},
     deep_dive_iterations : {0, 5}, memory_only : BOOLEAN, tokens_high : BOOLEAN]

(* SimpleWorker._evaluate_agent_run, for an AgentRun whose status is DONE *)
_evaluate_agent_run(st, rubric) ==
    [d \in rubric |->
        CASE d = "AR" ->
               Min(100, 80 + (IF st.compression_detected # "absent" THEN 10 ELSE 0))
          [] d = "TTL" ->
               IF st.deep_dive_iterations > 0
               THEN Min(100, st.deep_dive_iterations * 8) ELSE 50
          [] d = "LRU" -> IF st.memory_only THEN 90 ELSE 50
          [] d = "SF" ->
               IF st.compression_detected = "True" THEN 90
               ELSE IF st.tokens_high THEN 70 ELSE 60]

(* the thresholds _judge_single_agent hands to the Score: the task's, or 0.7
   for every rubric dimension when the task has none *)
NoThresholds == [d \in {} |-> 0]
TaskThresholds == {NoThresholds, [d \in {"AR"} |-> 90]}
ThresholdsFor(task_thresholds, rubric) ==
    IF DOMAIN task_thresholds = {} THEN [d \in rubric |-> DefaultThreshold]
    ELSE task_thresholds

(* Score.calculate_overall_score *)
calculate_overall_score(sc, thresholds) ==
    IF DOMAIN sc = {}
    THEN [overall_score |-> 0, passed |-> FALSE, breaking_dimensions |-> {}]
    ELSE LET breaking ==
               {d \in DOMAIN sc :
                  sc[d] < (IF d \in DOMAIN thresholds THEN thresholds[d]
                           ELSE DefaultThreshold)}
         IN  [overall_score |-> SumOver(sc, DOMAIN sc) \div Cardinality(DOMAIN sc),
              passed |-> breaking = {},
              breaking_dimensions |-> breaking]

(* judge_results and the model branch of workers/simple_worker.py:
   passing_scores >= max(3, len(rubric) * 0.75), a score passing at 0.5 *)
passed_by_count(sc, rubric) ==
    LET passing_scores == Cardinality({d \in DOMAIN sc : sc[d] >= 50})
    IN  4 * passing_scores >= Max(12, 3 * Cardinality(rubric))

JudgePaths ==
    {"backend._judge_single_agent", "workers._judge_single_agent", "tasks.judge_results"}

(* what the worker finds on the AgentRun: the questions and answers the
   judges work on, or (backend only) stats without "evaluation_qa", where
   _extract_evaluation_data raises and the worker's own heuristic is used;
   fallback_raises: that heuristic raises too.  The answers are varied where
   a heuristic judge may read them *)
Evidence(rubric) ==
    [kind : {"qa"}, response : Unparsed(rubric), answers : Answers]
    \cup [kind : {"qa"}, response : Fenced(rubric),
          answers : {a \in Answers : a.pre_details = 0 /\ a.changes = 0}]
    \cup [kind : {"stats"}, stats : RunStats, fallback_raises : BOOLEAN]

(* judging of one AgentRun is dispatched *)
judge_dispatch(path, rubric, judge_type, task_thresholds, evidence) ==
    /\ verdict = NoVerdict
    /\ path # "backend._judge_single_agent" =>
          (task_thresholds = NoThresholds /\ evidence.kind = "qa")
    /\ verdict' = [NoVerdict EXCEPT !.phase = "dispatched", !.path = path,
                                    !.rubric = rubric, !.judge_type = judge_type,
                                    !.thresholds = task_thresholds,
                                    !.evidence = evidence]
    /\ UNCHANGED <<db, transport, extras, local, session, detector, job, delivery, simple_worker, iflow, deep_dive, registry>>

(* the ScoreDB row of each path *)
score_data(path, e, rubric, thresholds) ==
    LET c == calculate_overall_score(e.scores, thresholds)
        backend == path = "backend._judge_single_agent"
    IN  [kind |-> "score",
         scores |-> e.scores,
         overall_score |-> c.overall_score,
         passed |-> IF backend THEN c.passed ELSE passed_by_count(e.scores, rubric),
         judge_type |-> e.judge_type_used,
         judge_model |-> IF e.judge_type_used = "llm" THEN judge_model ELSE "none",
         rationale |-> e.rationale,
         breaking_dimensions |-> IF backend THEN c.breaking_dimensions ELSE {}]

(* _judge_single_agent / judge_results for the dispatched AgentRun: the
   evaluation, the Score and create_score; an exception outside the inner
   try is logged by the outer handler and no row is written *)
judge_single_agent ==
    /\ verdict.phase = "dispatched"
    /\ LET v == verdict
           qa == v.evidence.kind = "qa"
           e == IF qa
                THEN evaluate_agent_performance(v.evidence.response, v.evidence.answers,
                                                v.rubric, v.judge_type)
                ELSE [scores |-> _evaluate_agent_run(v.evidence.stats, v.rubric),
                      rationale |-> "Agent completed",
                      judge_type_used |-> "heuristic"]
           origin == IF qa THEN ScoresOrigin(v.evidence.response, v.judge_type)
                     ELSE "heuristic"
       IN  verdict' =
             IF ~qa /\ v.evidence.fallback_raises
             THEN [v EXCEPT !.phase = "finished", !.raised = TRUE]
             ELSE [v EXCEPT !.phase = "finished",
                            !.scores = e.scores,
                            !.rationale = e.rationale,
                            !.judge_type_used = e.judge_type_used,
                            !.origin = origin,
                            !.row = score_data(v.path, e, v.rubric,
                                               ThresholdsFor(v.thresholds, v.rubric))]
    /\ UNCHANGED <<db, transport, extras, local, session, detector, job, delivery, simple_worker, iflow, deep_dive, registry>>

NextJudge ==
    \/ \E path \in JudgePaths, rubric \in Rubrics, judge_type \in JudgeTypes,
          task_thresholds \in TaskThresholds :
          \E evidence \in Evidence(rubric) :
            judge_dispatch(path, rubric, judge_type, task_thresholds, evidence)
    \/ judge_single_agent

SpecJudge == Init /\ [][NextJudge]_vars

(* the threshold of a dimension of the judged AgentRun *)
ThresholdOf(d) ==
    LET t == ThresholdsFor(verdict.thresholds, verdict.rubric)
    IN  IF d \in DOMAIN t THEN t[d] ELSE DefaultThreshold

(* C13: every persisted Score obeys the threshold law: passed holds exactly
   when every dimension's score is at or above its threshold, and the
   breaking dimensions are exactly the dimensions scored below their
   threshold.  Stated for the Scores that were persisted with passed = true:
   none of them has a dimension below its threshold. *)
C13_PassedIffEveryDimensionAtThreshold ==
    (verdict.row.kind = "score" /\ verdict.row.passed) =>
        /\ \A d \in DOMAIN verdict.row.scores : verdict.row.scores[d] >= ThresholdOf(d)
        /\ verdict.row.breaking_dimensions =
              {d \in DOMAIN verdict.row.scores : verdict.row.scores[d] < ThresholdOf(d)}

(* C14: when the model-backed judge gets malformed or missing output, or a
   transport failure, evaluate raises nothing, returns the scores of the
   heuristic judge for the same inputs, and its rationale carries the
   fallback marker. *)
C14_MalformedOutputFallsBackToHeuristic ==
    (/\ verdict.phase = "finished"
     /\ verdict.evidence.kind = "qa"
     /\ get_judge(verdict.judge_type) = "llm"
     /\ verdict.evidence.response.kind \in MalformedKinds \cup {"transport"})
    => /\ ~verdict.raised
       /\ verdict.scores =
             HeuristicJudge_evaluate(verdict.evidence.answers, verdict.rubric).scores
       /\ verdict.rationale = "LLM evaluation failed, used heuristic fallback"

(* C16: once the judging of a dispatched AgentRun has finished, its Score
   exists, whatever raised on the way. *)
C16_FinishedJudgingHasScore ==
    verdict.phase = "finished" => verdict.row.kind = "score"

(* C18: the judge kind recorded on a Score names the judge that produced the
   scores: heuristic whenever the heuristic judge computed them, and a model
   identifier only when the model produced them. *)
C18_RecordedJudgeProducedTheScores ==
    verdict.row.kind = "score" =>
        /\ verdict.origin = "heuristic" => verdict.row.judge_type = "heuristic"
        /\ verdict.row.judge_model # "none" => verdict.origin = "model"

(* C15: an exception raised while judging one AgentRun (the judging ends
   without a Score) leaves the Run and every AgentRun as they were, leaves
   the futures of the sibling agents alone, frees its thread of the judging
   pool for a sibling that waits, and leaves the coordinator where it
   completes the Run once every future is resolved. *)
C15_JudgingExceptionIsContained ==
    [][\A w \in Workers, i \in AgentIdx :
          (stage[w][i] = "judging" /\ stage'[w][i] = "judged" /\ scores' = scores)
          => /\ task' = task
             /\ agent_runs' = agent_runs
             /\ pc' = pc
             /\ \A j \in AgentIdx \ {i} : stage'[w][j] = stage[w][j]
             /\ (\E j \in AgentIdx : stage'[w][j] = "jpending")
                   => Cardinality(InJudgePool(w))' < JudgePoolSize(NAgents)
             /\ Resolved(w)' => pc'[w] = "collect"]_vars

(* a judging ended without a Score while a sibling is being judged or was
   judged, and neither the Run nor the AgentRun was failed *)
C15_Witness ==
    \E w \in Workers, i \in 1..NAgents, j \in 1..NAgents :
        /\ i # j
        /\ stage[w][i] = "judged"
        /\ find_agent_run(agent_runs, task.agents[i]) # 0
        /\ scores[find_agent_run(agent_runs, task.agents[i])] = 0
        /\ agent_runs[find_agent_run(agent_runs, task.agents[i])].status = DONE
        /\ stage[w][j] \in {"judging", "judged"}
        /\ task.status = RUNNING

(* C17: at every moment an AgentRun has at most one Score row, across any
   sequence of starts, redelivered triggers and retries.  Stated for the
   requests that name every agent once. *)
C17_AtMostOneScorePerAgentRun ==
    (\A i, j \in 1..NAgents : i # j => task.agents[i] # task.agents[j])
        => \A r \in AgentIdx : scores[r] <= 1

(* ---------------------------------------------------------------------- *)
(* app/agents/base.py: StandardCompressionDetector, given the readings of  *)
(* percent-of-context-remaining one after the other                        *)
(* ---------------------------------------------------------------------- *)
MaxReadings == 3
Readings == {10, 20, 40, 45, 75, 80}
(* settings.compression_threshold_low / compression_jump_threshold (both 30
   by default), and a low-water mark of 5 *)
DetectorSettings == {[threshold_low |-> 30, jump_threshold |-> 30],
                     [threshold_low |-> 5, jump_threshold |-> 30]}

(* StandardCompressionDetector.__init__ *)
StandardCompressionDetector(threshold_low, jump_threshold) ==
    /\ ~detector.constructed
    /\ detector' = [NoDetector EXCEPT !.constructed = TRUE,
                                      !.threshold_low = threshold_low,
                                      !.jump_threshold = jump_threshold]
    /\ UNCHANGED <<db, transport, extras, local, session, verdict, job, delivery, simple_worker, iflow, deep_dive, registry>>

(* StandardCompressionDetector.detect_compression *)
detect_compression(d, session_data) == FALSE

(* StandardCompressionDetector.should_enter_memory_only *)
should_enter_memory_only(d, session_data, previous_state) ==
    detect_compression(d, session_data)

(* the session hands the next reading to the detector, which has not fired *)
detector_reading(reading) ==
    /\ detector.constructed
    /\ detector.fired_at = 0
    /\ Len(detector.readings) < MaxReadings
    /\ LET previous_state == detector.readings
           n == Len(detector.readings) + 1
       IN  detector' =
             [detector EXCEPT
                !.readings = Append(@, reading),
                !.fired_at = IF should_enter_memory_only(detector, reading, previous_state)
                             THEN n ELSE 0]
    /\ UNCHANGED <<db, transport, extras, local, session, verdict, job, delivery, simple_worker, iflow, deep_dive, registry>>

NextDetector ==
    \/ \E c \in DetectorSettings :
          StandardCompressionDetector(c.threshold_low, c.jump_threshold)
    \/ \E reading \in Readings : detector_reading(reading)

SpecDetector == Init /\ [][NextDetector]_vars

(* the threshold test or the jump test holds of the k-th reading *)
TestFires(k) ==
    \/ detector.readings[k] <= detector.threshold_low
    \/ k > 1 /\ detector.readings[k] - detector.readings[k - 1] >= detector.jump_threshold

(* C19: the detector fires at the first reading that is at or below the
   low-water mark or exceeds the previous reading by at least the jump
   threshold, and at no earlier reading.  Stated for the two scenarios,
   [80, 75, 20] with low-water 30 and [40, 10, 45] with low-water 5, both
   with jump 30: when the k-th reading is the first to meet one of the
   tests, the detector has fired at k. *)
C19_DetectorFiresAtFirstCrossing ==
    (/\ detector.constructed
     /\ detector.jump_threshold = 30
     /\ <<detector.threshold_low, detector.readings>> \in
            {<<30, <<80, 75, 20>>>>, <<5, <<40, 10, 45>>>>})
    => \A k \in 1..Len(detector.readings) :
          (TestFires(k) /\ \A j \in 1..(k - 1) : ~TestFires(j))
             => detector.fired_at = k

(* C20: the deep-dive loop of a session never runs more iterations than the
   configured maximum, the loop is left only for the memory-only phase (or
   by an exception), and a session returns only from the recall phase. *)
C20_DeepDiveBoundedThenRecall ==
    [][/\ session'.deep_dive_count <= session'.max_turns
       /\ (session.phase = "deep" /\ session'.phase # "deep")
             => session'.phase \in {"memory_only", "raised"}
       /\ session'.phase = "returned" => session.phase = "recall"]_vars

(* ---------------------------------------------------------------------- *)
(* C21: once a detector has fired on the answer to a deep-dive prompt, no  *)
(* further deep-dive prompt is sent in the session, and the next prompt    *)
(* sent to the agent is the memory-only prompt.                            *)
(* ---------------------------------------------------------------------- *)
C21_DetectionEndsDeepDive ==
    \A k \in 1..Len(session.sent) :
        (session.sent[k].prompt = "deep" /\ session.sent[k].fired = "detector") =>
            /\ \A j \in (k + 1)..Len(session.sent) : session.sent[j].prompt # "deep"
            /\ k < Len(session.sent) => session.sent[k + 1].prompt = "memory_only"

(* ---------------------------------------------------------------------- *)
(* C22: the prompts of one session follow the order context load,          *)
(* pre-compression, deep dive, memory-only, recall questions; only the     *)
(* deep-dive prompt is repeated, and the recall questions are asked only   *)
(* after the memory-only prompt.                                           *)
(* ---------------------------------------------------------------------- *)
PhaseOrder == <<"init", "pre", "deep", "memory_only", "eval">>

PhaseRank(prompt) == CHOOSE n \in 1..Len(PhaseOrder) : PhaseOrder[n] = prompt

C22_PhasesInOrderAtMostOnce ==
    /\ \A j, k \in 1..Len(session.sent) :
          j < k =>
            \/ PhaseRank(session.sent[j].prompt) < PhaseRank(session.sent[k].prompt)
            \/ session.sent[j].prompt = "deep" /\ session.sent[k].prompt = "deep"
    /\ \A k \in 1..Len(session.sent) :
          session.sent[k].prompt = "eval" =>
            \E j \in 1..(k - 1) : session.sent[j].prompt = "memory_only"

(* ---------------------------------------------------------------------- *)
(* C23: a session in which the token count passed 90% of the maximum in a  *)
(* deep-dive iteration and no detector fired leaves the deep-dive loop     *)
(* only at the configured number of turns and does not report compression. *)
(* ---------------------------------------------------------------------- *)
C23_ApproachingLimitOnlyWarns ==
    (/\ session.phase \in {"memory_only", "recall", "returned", "finished"}
     /\ ~session.raised
     /\ \E k \in 1..Len(session.sent) : session.sent[k].fired = "approaching"
     /\ \A k \in 1..Len(session.sent) : session.sent[k].fired # "detector")
        => /\ ~session.compression_detected
           /\ session.deep_dive_count = session.max_turns

(* ---------------------------------------------------------------------- *)
(* C24: an AgentRun whose session ran past its session timeout ends in     *)
(* Error, and the error recorded for it is the timeout error.              *)
(* ---------------------------------------------------------------------- *)
C24_SessionTimeoutRecordedAsError ==
    (session.phase = "finished" /\ session.timed_out) =>
        /\ session.trail[Len(session.trail)] = ERROR
        /\ session.error = "AgentTimeoutError"

(* ---------------------------------------------------------------------- *)
(* workers/tasks.py: process_task as one job of the RQ worker.  The job    *)
(* arms a SIGALRM alarm for the whole task and then runs its agents one    *)
(* after the other in the job's own thread.                                *)
(* ---------------------------------------------------------------------- *)
MaxJobAgents == 3   \* agents of the job (distinct kinds of AgentName)

(* process_task up to the agent loop: signal.alarm(1800), the task RUNNING,
   the PR processed, the prompts generated *)
job_process_task(n) ==
    /\ job = NoJob
    /\ job' = [NoJob EXCEPT !.phase = "agents", !.alarm = "armed",
                            !.status = [i \in 1..n |-> QUEUED], !.next = 1,
                            !.task_status = RUNNING]
    /\ UNCHANGED <<db, transport, extras, local, session, verdict, detector, delivery, simple_worker, iflow, deep_dive, registry>>

(* the loop body enters run_agent_session for the next agent: the row is set
   RUNNING, the repository is copied and agent.run_session is called *)
job_run_agent_session ==
    /\ job.phase = "agents"
    /\ ~job.in_session
    /\ job.next <= Len(job.status)
    /\ job' = [job EXCEPT !.status[job.next] = RUNNING,
                          !.in_session = TRUE,
                          !.started_after_alarm =
                              IF job.alarm = "fired" THEN @ \cup {job.next} ELSE @]
    /\ UNCHANGED <<db, transport, extras, local, session, verdict, detector, delivery, simple_worker, iflow, deep_dive, registry>>

(* how a session ends for the loop:
     "result"   run_session returns a result (its own or handle_error's):
                run_agent_session writes DONE
     "raised"   an exception surfaces in run_agent_session: its except writes
                ERROR and re-raises, the except of the loop body writes ERROR
                again and the loop goes on with the next agent *)
SessionEnds == {"result", "raised"}

job_session_ended(j, how) ==
    [j EXCEPT !.status[j.next] = IF how = "result" THEN DONE ELSE ERROR,
              !.in_session = FALSE,
              !.next = @ + 1]

job_agent_returns(how) ==
    /\ job.phase = "agents"
    /\ job.in_session
    /\ job' = job_session_ended(job, how)
    /\ UNCHANGED <<db, transport, extras, local, session, verdict, detector, delivery, simple_worker, iflow, deep_dive, registry>>

(* the alarm goes off: timeout_handler raises TimeoutError in the frame the
   thread is executing.  Inside a session that frame lies within
   run_session's 'except Exception' (handle_error returns a result) or, in
   the worker's own statements around it, within run_agent_session's; in
   both cases the exception has been consumed when the loop body ends.
   Outside the loop body it reaches the except of process_task, which sets
   the task ERROR *)
timeout_handler(how) ==
    /\ job.alarm = "armed"
    /\ job.phase \in {"agents", "judging"}
    /\ job' = IF job.phase = "agents" /\ job.in_session
              THEN [job_session_ended(job, how) EXCEPT !.alarm = "fired"]
              ELSE [job EXCEPT !.alarm = "fired", !.phase = "returned",
                               !.task_status = ERROR]
    /\ UNCHANGED <<db, transport, extras, local, session, verdict, detector, delivery, simple_worker, iflow, deep_dive, registry>>

(* step 4: after the last agent the task is set JUDGING when an agent
   returned a result without "error" *)
job_judge_results ==
    /\ job.phase = "agents"
    /\ ~job.in_session
    /\ job.next > Len(job.status)
    /\ job' = [job EXCEPT !.phase = "judging",
                          !.task_status =
                              IF \E i \in 1..Len(job.status) : job.status[i] = DONE
                              THEN "judging" ELSE @]
    /\ UNCHANGED <<db, transport, extras, local, session, verdict, detector, delivery, simple_worker, iflow, deep_dive, registry>>

(* step 5: the task is set DONE and process_task returns *)
job_complete ==
    /\ job.phase = "judging"
    /\ job' = [job EXCEPT !.phase = "returned", !.task_status = DONE]
    /\ UNCHANGED <<db, transport, extras, local, session, verdict, detector, delivery, simple_worker, iflow, deep_dive, registry>>

NextJob ==
    \/ \E n \in 1..MaxJobAgents : job_process_task(n)
    \/ job_run_agent_session
    \/ \E how \in SessionEnds : job_agent_returns(how)
    \/ \E how \in SessionEnds : timeout_handler(how)
    \/ job_judge_results
    \/ job_complete

SpecJob == Init /\ [][NextJob]_vars

(* ---------------------------------------------------------------------- *)
(* C25: once the alarm of the task has gone off, no agent of the task is   *)
(* in a session any more and no agent session of the task has started      *)
(* since.                                                                  *)
(* ---------------------------------------------------------------------- *)
C25_HardTimeoutStopsAgents ==
    job.alarm = "fired" =>
        /\ \A i \in 1..Len(job.status) : job.status[i] # RUNNING
        /\ job.started_after_alarm = {}

(* ---------------------------------------------------------------------- *)
(* Workspaces: the directory an agent session is given as repo_dir.        *)
(* Paths are relative to <run_root>/<task_id>.                             *)
(* ---------------------------------------------------------------------- *)

(* PRAnalysisResult.repo_path: the clone made by process_pr *)
master_repo_path == <<"master">>

(* PRService.create_agent_repo_copy: copies the master clone *)
create_agent_repo_copy(agent_name) == <<"agents", agent_name, "repo">>

(* session.repo_dir as each worker function sets it *)
repo_dir(worker, agent_name) ==
    IF worker = "run_agent_process"
    THEN master_repo_path
    ELSE create_agent_repo_copy(agent_name)

(* ---------------------------------------------------------------------- *)
(* C26: two agent sessions of a task that run at the same time, for        *)
(* different agent kinds, have different workspace directories, and        *)
(* neither is the master copy.                                             *)
(* ---------------------------------------------------------------------- *)
C26_WorkspacesAreExclusive ==
    \A w \in Workers : \A i, j \in InAgentPool(w) :
        (i # j /\ task.agents[i] # task.agents[j]) =>
            /\ repo_dir("run_agent_process", task.agents[i])
                    # repo_dir("run_agent_process", task.agents[j])
            /\ repo_dir("run_agent_process", task.agents[i]) # master_repo_path

(* ---------------------------------------------------------------------- *)
(* C27: the AgentRun rows of a task never include two rows of the same     *)
(* agent kind.                                                             *)
(* ---------------------------------------------------------------------- *)
C27_OneAgentRunPerKind ==
    \A i, j \in 1..Len(agent_runs) :
        i # j => agent_runs[i].agent # agent_runs[j].agent

(* ---------------------------------------------------------------------- *)
(* C28: a retry request for a task whose agents are of different kinds    *)
(* leaves unchanged every AgentRun that is neither Done nor Error          *)
(* (Queued, Running, MemoryOnly or Evaluating).                            *)
(* ---------------------------------------------------------------------- *)
C28_RetryOnlyWhenDoneOrError ==
    [][\A agents \in RetryRequests :
          (retry_task(agents) /\ C27_OneAgentRunPerKind) =>
              \A i \in 1..Len(agent_runs) :
                  agent_runs[i].status \notin {DONE, ERROR} =>
                      agent_runs'[i] = agent_runs[i]]_vars

(* ---------------------------------------------------------------------- *)
(* C29: a retry that takes a Done or Error AgentRun sets it to Queued and  *)
(* increases its retry count by exactly one.                               *)
(* ---------------------------------------------------------------------- *)
C29_RetryResetsAndCounts ==
    [][\A agents \in RetryRequests :
          retry_task(agents) =>
              \A i \in 1..Len(agent_runs) :
                  (retried(agent_runs[i], agents)
                        /\ agent_runs[i].status \in {DONE, ERROR}) =>
                      /\ agent_runs'[i].status = QUEUED
                      /\ agent_runs'[i].retry_count = agent_runs[i].retry_count + 1]_vars

(* ---------------------------------------------------------------------- *)
(* A task that is processed and then retried through POST /{id}/retry:     *)
(* the backend pipeline with no other request and no failing submission.   *)
(* Every component keeps running: a step that can be taken is taken.       *)
(* ---------------------------------------------------------------------- *)
NextRetry ==
    \/ \E agents \in AgentLists, cloud_ok \in BOOLEAN : create_task(agents, cloud_ok)
    \/ process_task_internal
    \/ process_message
    \/ \E w \in Workers : process_task_begin(w)
    \/ \E w \in Workers, pr_ok \in BOOLEAN : process_task_pr(w, pr_ok)
    \/ \E w \in Workers : submit_agents(w, {})
    \/ \E w \in Workers, i \in AgentIdx, available \in BOOLEAN : agent_start(w, i, available)
    \/ \E w \in Workers, i \in AgentIdx, outcome \in SessionOutcomes : agent_finish(w, i, outcome)
    \/ \E w \in Workers, i \in AgentIdx, raises \in BOOLEAN : collect_agent(w, i, raises)
    \/ \E w \in Workers, i \in AgentIdx : judge_start(w, i)
    \/ \E w \in Workers, i \in AgentIdx, scored \in BOOLEAN : judge_finish(w, i, scored)
    \/ \E w \in Workers : process_task_complete(w)
    \/ \E agents \in RetryRequests : retry_task(agents)

SpecRetry == Init /\ [][NextRetry]_vars /\ WF_vars(NextRetry)

(* ---------------------------------------------------------------------- *)
(* C30: an AgentRun of a completed task that is Queued after the retry     *)
(* request of the task, with no worker busy, eventually is Done or Error.  *)
(* ---------------------------------------------------------------------- *)
C30_RetriedAgentRunIsProcessed ==
    \A i \in AgentIdx :
        (/\ extras = 1
         /\ task.status = DONE
         /\ \A w \in Workers : Free(w)
         /\ i <= Len(agent_runs) /\ agent_runs[i].status = QUEUED)
            ~> (i <= Len(agent_runs) /\ agent_runs[i].status \in {DONE, ERROR})

(* ---------------------------------------------------------------------- *)
(* C31: while a task is being processed, an agent whose submission failed  *)
(* has the failure on record: its AgentRun is in Error or carries an       *)
(* error message, or the task carries one.                                 *)
(* ---------------------------------------------------------------------- *)
C31_SubmissionFailureIsRecorded ==
    \A w \in Workers : \A i \in 1..NAgents :
        stage[w][i] = "subfail" =>
            LET r == find_agent_run(agent_runs, task.agents[i])
            IN  \/ task.error_message # ""
                \/ r # 0 /\ (agent_runs[r].status = ERROR
                                \/ agent_runs[r].error_message # "")

(* ---------------------------------------------------------------------- *)
(* C32: the task of a job is only ever Queued, Running, Done or Error: it  *)
(* never has the status Judging, entered once all its agents have ended.   *)
(* ---------------------------------------------------------------------- *)
C32_RunNeverJudging ==
    job.phase # "idle" => job.task_status \in {QUEUED, RUNNING, DONE, ERROR}

(* ---------------------------------------------------------------------- *)
(* workers/cloud_worker.py: one message of the subscription, from its      *)
(* delivery to process_message until the task it names has been processed *)
(* by the in-memory queue.                                                 *)
(* ---------------------------------------------------------------------- *)
MaxDeliveries == 3   \* deliveries of the message that are followed

(* what message.data holds:
     "task"        JSON object with the task_id of a task
     "no_task_id"  JSON object without task_id
     "not_json"    text that is not JSON
     "not_utf8"    bytes that are not UTF-8
     "not_object"  JSON that is not an object (a list, a string) *)
MessageKinds == {"task", "no_task_id", "not_json", "not_utf8", "not_object"}

(* the status of the TaskDB row when process_message looks it up *)
LookedUpStatus == {"absent", QUEUED, RUNNING, DONE, ERROR}

pubsub_delivers(kind, status) ==
    /\ delivery.phase = "idle"
    /\ delivery' = [NoDelivery EXCEPT !.phase = "received", !.message = kind,
                                      !.task_status = status, !.deliveries = 1]
    /\ UNCHANGED <<db, transport, extras, local, session, verdict, detector, job, simple_worker, iflow, deep_dive, registry>>

(* process_message, the whole callback.  raises: the statement that raises
   an unexpected exception ("none", "lookup": Session/get_task, "enqueue":
   process_task_simple).  process_task_simple only puts the task on
   simple_queue and returns *)
RaisingSteps == {"none", "lookup", "enqueue"}

settle(d, raises) ==
    LET ack == [d EXCEPT !.acks = @ + 1]
        nack == [d EXCEPT !.nacks = @ + 1]
    IN  CASE d.message = "not_utf8" -> nack
          [] d.message = "not_json" -> ack
          [] d.message = "not_object" -> nack
          [] d.message = "no_task_id" -> ack
          [] d.message = "task" ->
               IF raises = "lookup" THEN [nack EXCEPT !.raised = "lookup"]
               ELSE IF ~accepts_message(d.task_status) THEN ack
               ELSE IF raises = "enqueue" THEN [nack EXCEPT !.raised = "enqueue"]
               ELSE [ack EXCEPT !.processing = "queued"]

cloud_worker_process_message(raises) ==
    /\ delivery.phase = "received"
    /\ raises # "none" => delivery.message = "task"
    /\ raises = "enqueue" => accepts_message(delivery.task_status)
    /\ delivery' = [settle(delivery, raises) EXCEPT !.phase = "settled"]
    /\ UNCHANGED <<db, transport, extras, local, session, verdict, detector, job, simple_worker, iflow, deep_dive, registry>>

(* SimpleTaskQueue._process_tasks takes the entry and runs process_task *)
simple_queue_starts ==
    /\ delivery.processing = "queued"
    /\ delivery' = [delivery EXCEPT !.processing = "running"]
    /\ UNCHANGED <<db, transport, extras, local, session, verdict, detector, job, simple_worker, iflow, deep_dive, registry>>

(* process_task returns (ok) or raises *)
simple_queue_finishes(ok) ==
    /\ delivery.processing = "running"
    /\ delivery' = [delivery EXCEPT !.processing = IF ok THEN "succeeded" ELSE "failed"]
    /\ UNCHANGED <<db, transport, extras, local, session, verdict, detector, job, simple_worker, iflow, deep_dive, registry>>

(* Pub/Sub delivers a nacked message again *)
pubsub_redelivers ==
    /\ delivery.phase = "settled"
    /\ delivery.nacks > 0
    /\ delivery.deliveries < MaxDeliveries
    /\ delivery' = [delivery EXCEPT !.phase = "received", !.acks = 0, !.nacks = 0,
                                    !.raised = "none", !.deliveries = @ + 1]
    /\ UNCHANGED <<db, transport, extras, local, session, verdict, detector, job, simple_worker, iflow, deep_dive, registry>>

NextDelivery ==
    \/ \E kind \in MessageKinds, status \in LookedUpStatus : pubsub_delivers(kind, status)
    \/ \E raises \in RaisingSteps : cloud_worker_process_message(raises)
    \/ simple_queue_starts
    \/ \E ok \in BOOLEAN : simple_queue_finishes(ok)
    \/ pubsub_redelivers

SpecDelivery == Init /\ [][NextDelivery]_vars

(* ---------------------------------------------------------------------- *)
(* C33: a message that named a task to process has been acknowledged only  *)
(* if the processing of that task has succeeded.                           *)
(* ---------------------------------------------------------------------- *)
C33_AckOnlyAfterProcessingSucceeded ==
    (/\ delivery.message = "task"
     /\ accepts_message(delivery.task_status)
     /\ delivery.acks > 0)
        => delivery.processing = "succeeded"

(* ---------------------------------------------------------------------- *)
(* C36: when process_message has returned, the delivery has exactly one    *)
(* ack or one nack, and a nack only when the lookup or the enqueuing of    *)
(* the task raised.                                                        *)
(* ---------------------------------------------------------------------- *)
C36_SettledExactlyOnce ==
    delivery.phase = "settled" =>
        /\ delivery.acks + delivery.nacks = 1
        /\ delivery.nacks = 1 => delivery.raised \in {"lookup", "enqueue"}

(* ---------------------------------------------------------------------- *)
(* SimpleTaskQueue._process_tasks creates one SimpleWorker and submits     *)
(* worker.process_task of every task to its ThreadPoolExecutor             *)
(* (max_workers threads): the tasks of the executor share the instance     *)
(* and its attribute task_logger.  Task t is the task run by thread t.     *)
(* ---------------------------------------------------------------------- *)

(* the events of one task, in the order process_task and the judging
   thread log them *)
TaskEvents == <<"TASK_STARTED", "AGENT_STARTED", "AGENT_JUDGED", "TASK_COMPLETED">>

(* the point after which event n is logged *)
EventPoint(n) == IF n = 1 THEN "logger" ELSE TaskEvents[n - 1]

(* process_task: self.task_logger = TaskLogger(task_id) (line 219) *)
create_task_logger(t) ==
    /\ simple_worker.at[t] = "queued"
    /\ simple_worker' = [simple_worker EXCEPT !.task_logger = t, !.at[t] = "logger"]
    /\ UNCHANGED <<db, transport, extras, local, session, verdict, detector, job, delivery, iflow, deep_dive, registry>>

(* asyncio.run(self.task_logger.log_task_event(task_id, ...)): the event of
   task t goes through whatever self.task_logger is at that moment *)
log_task_event(t, n) ==
    /\ simple_worker.at[t] = EventPoint(n)
    /\ simple_worker' = [simple_worker EXCEPT
                            !.through[t] = @ \cup {simple_worker.task_logger},
                            !.at[t] = TaskEvents[n]]
    /\ UNCHANGED <<db, transport, extras, local, session, verdict, detector, job, delivery, iflow, deep_dive, registry>>

NextSimpleWorker ==
    \/ \E t \in Workers : create_task_logger(t)
    \/ \E t \in Workers, n \in 1..Len(TaskEvents) : log_task_event(t, n)

SpecSimpleWorker == Init /\ [][NextSimpleWorker]_vars

(* ---------------------------------------------------------------------- *)
(* C34: every event of a task is written through the TaskLogger created    *)
(* for that task.                                                          *)
(* ---------------------------------------------------------------------- *)
C34_EventsThroughOwnTaskLogger ==
    \A t \in Workers : simple_worker.through[t] \subseteq {t}

(* ---------------------------------------------------------------------- *)
(* The iFlow sessions of the tasks the queue's executor runs at the same   *)
(* time: session t is the iFlow agent of the task on thread t, run by      *)
(* run_agent_process in a process of that task's own pool, with its own    *)
(* IFlowAgent instance.  A process is a pid; the port of the machine has   *)
(* at most one listener.                                                   *)
(* ---------------------------------------------------------------------- *)
MaxPids == 4

iflow_running(t) == iflow.sess[t].phase \in {"started", "connected"}

(* _start_iflow_process: Popen([iflow, "--experimental-acp", "--port",
   str(self.port), ...]); self.iflow_process = process.  The new process
   listens on the port when the port is free; when it is taken, the
   process either exits or stays without the port (stays) *)
start_iflow_process(t, stays) ==
    /\ iflow.sess[t].phase = "idle"
    /\ iflow.pids < MaxPids
    /\ LET pid == iflow.pids + 1
           free == iflow.listening = 0
       IN  iflow' = [iflow EXCEPT
                        !.pids = pid,
                        !.alive = IF free \/ stays THEN @ \cup {pid} ELSE @,
                        !.listening = IF free THEN pid ELSE @,
                        !.sess[t] = [phase |-> "started",
                                     port |-> IFlowPort,
                                     iflow_process |-> pid,
                                     url |-> 0]]
    /\ UNCHANGED <<db, transport, extras, local, session, verdict, detector, job, delivery, simple_worker, deep_dive, registry>>

(* _run_async_session: IFlowClient(url = ws://localhost:<self.port>/acp)
   connects to whichever process listens on the port; with no listener
   the connection fails and the session ends in its except branch *)
iflow_connect(t) ==
    /\ iflow.sess[t].phase = "started"
    /\ iflow' = [iflow EXCEPT
                    !.sess[t].phase = IF iflow.listening = 0 THEN "failed" ELSE "connected",
                    !.sess[t].url = iflow.listening]
    /\ UNCHANGED <<db, transport, extras, local, session, verdict, detector, job, delivery, simple_worker, deep_dive, registry>>

(* run_session, finally: if self.iflow_process and
   self.iflow_process.poll() is None: terminate (then kill) it *)
iflow_cleanup(t) ==
    /\ iflow.sess[t].phase \in {"connected", "failed"}
    /\ LET pid == iflow.sess[t].iflow_process
       IN  iflow' = [iflow EXCEPT
                        !.alive = @ \ {pid},
                        !.listening = IF @ = pid THEN 0 ELSE @,
                        !.sess[t] = NoIFlowSession]
    /\ UNCHANGED <<db, transport, extras, local, session, verdict, detector, job, delivery, simple_worker, deep_dive, registry>>

NextIFlow ==
    \/ \E t \in Workers, stays \in BOOLEAN : start_iflow_process(t, stays)
    \/ \E t \in Workers : iflow_connect(t)
    \/ \E t \in Workers : iflow_cleanup(t)

SpecIFlow == Init /\ [][NextIFlow]_vars

(* ---------------------------------------------------------------------- *)
(* C35: two iFlow sessions running at the same time never have the same    *)
(* server port or the same process handle, and the cleanup of one session  *)
(* never terminates the process of another session that is still running.  *)
(* ---------------------------------------------------------------------- *)
C35_ConcurrentSessionsShareNothing ==
    /\ [](\A t, u \in Workers :
            (t # u /\ iflow_running(t) /\ iflow_running(u)) =>
                /\ iflow.sess[t].port # iflow.sess[u].port
                /\ iflow.sess[t].iflow_process # iflow.sess[u].iflow_process)
    /\ [][\A t, u \in Workers :
            (t # u /\ iflow_cleanup(t) /\ iflow_running(u)
                   /\ iflow.sess[u].iflow_process \in iflow.alive)
                => iflow.sess[u].iflow_process \in iflow'.alive]_vars

(* ---------------------------------------------------------------------- *)
(* The token estimate of backend/app/agents/iflow_agent.py and the four    *)
(* detection methods of its deep-dive loop.  A response is its length in   *)
(* characters, whether it holds one of the compression keywords, and the   *)
(* hit_token_limit flag of _send_and_collect.                              *)
(* ---------------------------------------------------------------------- *)
MaxResponseChars == 12
ResponseChars == {0, 3, 4, 9, MaxResponseChars}
MaxContextTokens == {4, 8}      \* settings.max_context_tokens considered
DeepDiveTurns == 1..3           \* settings.max_turns considered

(* an estimate that counted the last response only *)
estimate_of_last_response(total, chars) == chars \div 4

(* total_tokens_estimate += len(result["response"]) // 4 *)
add_to_estimate(total, chars) == total + chars \div 4

(* prev_tokens > 0 and total_tokens_estimate < prev_tokens * 0.7 *)
token_jump(prev, total) == prev > 0 /\ 10 * total < 7 * prev

(* the methods in the order the loop tries them; "none": no break *)
detection(prev, total, keyword, hit_limit, max_tokens) ==
    CASE token_jump(prev, total) -> "token_jump"
      [] keyword                 -> "response_analysis"
      [] hit_limit               -> "token_limit_flag"
      [] total >= max_tokens     -> "token_estimate_exceeded"
      [] OTHER                   -> "none"

(* phases 1 and 2: /init and the pre-compression prompt are answered and
   counted; deep_dive_count = 0, prev_tokens = 0, detection_method = "none" *)
load_context(max_tokens, max_turns, init_chars, pre_chars) ==
    /\ deep_dive.phase = "idle"
    /\ deep_dive' = [NoDeepDive EXCEPT
                        !.phase = "deep",
                        !.max_tokens = max_tokens,
                        !.max_turns = max_turns,
                        !.total_tokens_estimate =
                            add_to_estimate(add_to_estimate(0, init_chars), pre_chars)]
    /\ UNCHANGED <<db, transport, extras, local, session, verdict, detector, job, delivery, simple_worker, iflow, registry>>

(* one iteration of 'while deep_dive_count < self.max_turns' *)
deep_dive_turn(chars, keyword, hit_limit) ==
    /\ deep_dive.phase = "deep"
    /\ deep_dive.deep_dive_count < deep_dive.max_turns
    /\ LET prev == deep_dive.total_tokens_estimate
           total == add_to_estimate(prev, chars)
           method == detection(prev, total, keyword, hit_limit, deep_dive.max_tokens)
       IN  deep_dive' = [deep_dive EXCEPT
                            !.deep_dive_count = @ + 1,
                            !.prev_tokens = prev,
                            !.total_tokens_estimate = total,
                            !.detection_method = method,
                            !.compression_detected = method # "none",
                            !.phase = IF method # "none" THEN "memory_only" ELSE @]
    /\ UNCHANGED <<db, transport, extras, local, session, verdict, detector, job, delivery, simple_worker, iflow, registry>>

(* the loop condition fails: max_turns iterations without a detection *)
deep_dive_complete ==
    /\ deep_dive.phase = "deep"
    /\ deep_dive.deep_dive_count >= deep_dive.max_turns
    /\ deep_dive' = [deep_dive EXCEPT !.phase = "memory_only"]
    /\ UNCHANGED <<db, transport, extras, local, session, verdict, detector, job, delivery, simple_worker, iflow, registry>>

NextDeepDive ==
    \/ \E max_tokens \in MaxContextTokens, max_turns \in DeepDiveTurns :
          \E init_chars, pre_chars \in ResponseChars :
            load_context(max_tokens, max_turns, init_chars, pre_chars)
    \/ \E chars \in ResponseChars, keyword, hit_limit \in BOOLEAN :
          deep_dive_turn(chars, keyword, hit_limit)
    \/ deep_dive_complete

SpecDeepDive == Init /\ [][NextDeepDive]_vars

(* ---------------------------------------------------------------------- *)
(* C37: in the backend iFlow session the token estimate after a deep-dive  *)
(* iteration is never below the estimate before it, the token-drop test    *)
(* is never true and the detection method is never "token_jump".           *)
(* ---------------------------------------------------------------------- *)
C37_TokenJumpNeverFires ==
    /\ deep_dive.prev_tokens <= deep_dive.total_tokens_estimate
    /\ ~token_jump(deep_dive.prev_tokens, deep_dive.total_tokens_estimate)
    /\ deep_dive.detection_method # "token_jump"

(* two iterations have run, the estimate before the last one was positive
   and the last answer was empty: the estimate stayed where it was *)
C37_Witness ==
    /\ deep_dive.deep_dive_count >= 2
    /\ deep_dive.prev_tokens > 0
    /\ deep_dive.total_tokens_estimate = deep_dive.prev_tokens
    /\ deep_dive.detection_method = "none"

(* ---------------------------------------------------------------------- *)
(* C38: when retry_task_internal answers with an error, the status and     *)
(* the error message of the task are what they were before the call.       *)
(* ---------------------------------------------------------------------- *)
C38_FailedRetryLeavesTaskAlone ==
    [][retry_task_internal(FALSE) =>
          /\ task'.status = task.status
          /\ task'.error_message = task.error_message]_vars

(* ---------------------------------------------------------------------- *)
(* backend/app/agents/registry.py: AgentRegistry.  _agents maps a name to  *)
(* the registered class, _instances to the cached instance (here: the      *)
(* class it is an instance of).                                            *)
(* ---------------------------------------------------------------------- *)

(* register_agent: skipped when the name is registered and force is false;
   otherwise _agents[name] (and _metadata[name]) are assigned *)
register_agent(name, agent_class, force) ==
    /\ registry' = IF registry._agents[name] # "none" /\ ~force
                   THEN registry
                   ELSE [registry EXCEPT !._agents[name] = agent_class]
    /\ UNCHANGED <<db, transport, extras, local, session, verdict, detector, job, delivery, simple_worker, iflow, deep_dive>>

(* unregister_agent: removes the class and the cached instance *)
unregister_agent(name) ==
    /\ registry._agents[name] # "none"
    /\ registry' = [registry EXCEPT !._agents[name] = "none",
                                    !._instances[name] = "none"]
    /\ UNCHANGED <<db, transport, extras, local, session, verdict, detector, job, delivery, simple_worker, iflow, deep_dive>>

(* get_agent: AgentNotFoundError for an unregistered name; the cached
   instance when there is one; otherwise agent_class() is created, checked
   with validate_installation (valid) and cached *)
get_agent(name, valid) ==
    /\ registry' =
         CASE registry._agents[name] = "none" ->
                [registry EXCEPT !.returned =
                    [name |-> name, instance_of |-> "AgentNotFoundError"]]
           [] registry._agents[name] # "none" /\ registry._instances[name] # "none" ->
                [registry EXCEPT !.returned =
                    [name |-> name, instance_of |-> registry._instances[name]]]
           [] registry._agents[name] # "none" /\ registry._instances[name] = "none" /\ valid ->
                [registry EXCEPT !._instances[name] = registry._agents[name],
                                 !.returned =
                    [name |-> name, instance_of |-> registry._agents[name]]]
           [] OTHER ->
                [registry EXCEPT !.returned =
                    [name |-> name, instance_of |-> "AgentNotFoundError"]]
    /\ UNCHANGED <<db, transport, extras, local, session, verdict, detector, job, delivery, simple_worker, iflow, deep_dive>>

NextRegistry ==
    \/ \E name \in RegistryNames, agent_class \in AgentClasses, force \in BOOLEAN :
          register_agent(name, agent_class, force)
    \/ \E name \in RegistryNames : unregister_agent(name)
    \/ \E name \in RegistryNames, valid \in BOOLEAN : get_agent(name, valid)

SpecRegistry == Init /\ [][NextRegistry]_vars

(* ---------------------------------------------------------------------- *)
(* C39: an instance that get_agent returns for a name is an instance of    *)
(* the class registered for that name at the time of the call, also after  *)
(* register_agent with force=True has replaced the class (only such a      *)
(* replacement makes the cached instance and the registered class differ). *)
(* ---------------------------------------------------------------------- *)
C39_GetAgentReturnsRegisteredClass ==
    [][\A name \in RegistryNames, valid \in BOOLEAN :
          (get_agent(name, valid) /\ registry'.returned.instance_of \in AgentClasses)
              => registry'.returned.instance_of = registry._agents[name]]_vars

====
